---- MODULE Spec2Model ----
(***************************************************************************)
(* getVariablesJSONSchema (graphql-language-service): the conversion of a  *)
(* variable-name -> GraphQL input type map into a JSON schema document.    *)
(*                                                                         *)
(* The recursive function getJSONSchemaFromGraphQLType is modelled with an *)
(* explicit call stack: one frame per call, one action per straight-line   *)
(* piece of the function between two recursive calls.  JSON objects are    *)
(* TLA+ functions over their keys, JSON arrays and JS objects whose key    *)
(* order is observable (properties, definitions) are sequences, strings    *)
(* are strings.  getVariablesJSONSchema is called twice in a row, the      *)
(* second time on a permutation of the first call's entries.               *)
(***************************************************************************)
EXTENDS Integers, Sequences, FiniteSets, TLC

VARIABLES
  variableToType,       \* argument of the current call: sequence of [name, type]
  mapGiven,             \* FALSE: the variableToType argument is undefined
  useMarkdownDescription, \* options.useMarkdownDescription
  customScalarSchemas,  \* options.customScalarSchemas, the caller's object
  pc,                   \* position in getVariablesJSONSchema
  jsonSchema,           \* the document under construction
  vi,                   \* index of the Object.entries loop
  marker,               \* runtimeOptions.definitionMarker (Marker.set)
  stack,                \* frames of getJSONSchemaFromGraphQLType, top first
  ret,                  \* the DefinitionResult returned last
  run,                  \* 1: first call, 2: second call
  firstCall,            \* argument and result of the first call
  audit                 \* per call: names expanded, keys overwritten by a merge

vars == <<variableToType, mapGiven, useMarkdownDescription, customScalarSchemas,
          pc, jsonSchema, vi, marker, stack, ret, run, firstCall, audit>>

(***************************************************************************)
(* Bounds of the model.                                                    *)
(***************************************************************************)
MaxVars == 2

(***************************************************************************)
(* JSON values.                                                            *)
(***************************************************************************)
EmptyObject == <<>>
Has(obj, key) == key \in DOMAIN obj
Set(obj, key, value) == (key :> value) @@ obj
\* {...a, ...b}
Spread(a, b) == b @@ a
\* the value of a `type` key: one tag, or an array of tags
TypeTag(t) == [isArray |-> FALSE, tags |-> <<t>>]
TypeTags(ts) == [isArray |-> TRUE, tags |-> ts]
NullAlternative == [type |-> TypeTag("null")]
\* the null pushed into an enum's values
Null == "<null>"
Ref(name) == "#/definitions/" \o name
RefObject(name) == ("$ref" :> Ref(name))
Truthy(obj, key) == Has(obj, key) /\ obj[key] # ""

\* A JS object whose key order is kept: a sequence of [key, value].
Keys(m) == [i \in 1..Len(m) |-> m[i].key]
KeySet(m) == {m[i].key : i \in 1..Len(m)}
Get(m, k) == m[CHOOSE i \in 1..Len(m) : m[i].key = k].value
Put(m, k, v) ==
  IF k \in KeySet(m)
    THEN [i \in 1..Len(m) |-> IF m[i].key = k THEN [key |-> k, value |-> v] ELSE m[i]]
    ELSE Append(m, [key |-> k, value |-> v])

(***************************************************************************)
(* Type references and the GraphQL schema they are resolved against.       *)
(***************************************************************************)
Named(n) == [k |-> "Named", name |-> n]
ListOf(t) == [k |-> "List", ofType |-> t]
NonNullOf(t) == [k |-> "NonNull", ofType |-> t]
InputField(n, t, d) ==
  [k |-> "Field", name |-> n, type |-> t, description |-> d,
   hasDefault |-> FALSE, defaultValue |-> 0]
InputFieldDefault(n, t, d, v) ==
  [k |-> "Field", name |-> n, type |-> t, description |-> d,
   hasDefault |-> TRUE, defaultValue |-> v]

Scalar(d) == [kind |-> "Scalar", description |-> d, values |-> <<>>, fields |-> <<>>]
Enum(d, vs) == [kind |-> "Enum", description |-> d, values |-> vs, fields |-> <<>>]
InputObject(d, fs) == [kind |-> "InputObject", description |-> d, values |-> <<>>, fields |-> fs]

Schema ==
  [Int |-> Scalar(""), String |-> Scalar(""), Float |-> Scalar(""),
   ID |-> Scalar(""), Boolean |-> Scalar(""), DateTime |-> Scalar(""),
   JSON |-> Scalar("Any JSON value"),
   Email |-> Scalar(""), Num |-> Scalar(""), Either |-> Scalar(""), Hex |-> Scalar(""),
   Any |-> Scalar(""),
   Color |-> Enum("A color", <<"RED", "GREEN">>),
   Unit |-> Enum("", <<"M">>),
   Filter |-> InputObject("", <<InputField("self", Named("Filter"), "")>>),
   A |-> InputObject("Type A",
           <<InputField("b", NonNullOf(Named("B")), "the b"),
             InputFieldDefault("n", Named("Int"), "", 3)>>),
   B |-> InputObject("",
           <<InputField("as", ListOf(Named("A")), ""),
             InputField("color", NonNullOf(Named("Color")), ""),
             InputField("bags", ListOf(NonNullOf(Named("Bag"))), "")>>),
   Bag |-> InputObject("Custom scalars",
           <<InputField("num", Named("Num"), ""),
             InputField("either", Named("Either"), "one of two"),
             InputField("hex", Named("Hex"), ""),
             InputField("hexes", NonNullOf(ListOf(NonNullOf(Named("Hex")))), ""),
             InputField("mail", NonNullOf(Named("Email")), ""),
             InputField("when", ListOf(Named("DateTime")), ""),
             InputField("unit", Named("Unit"), ""),
             InputField("ratio", NonNullOf(Named("Float")), ""),
             InputField("on", Named("Boolean"), ""),
             InputField("either2", NonNullOf(Named("Either")), ""),
             InputField("num2", NonNullOf(Named("Num")), ""),
             InputField("json", Named("JSON"), ""),
             InputField("any", NonNullOf(Named("Any")), "")>>)]

InputObjectNames == {n \in DOMAIN Schema : Schema[n].kind = "InputObject"}

\* options.customScalarSchemas as the caller passes it: a single type tag
\* with a description, an array of tags, a oneOf, neither, and an array of
\* tags that allows null.
CallerScalarSchemas ==
  [Email |-> [type |-> TypeTag("string"), description |-> "An email address"],
   Num |-> [type |-> TypeTags(<<"integer", "number">>)],
   Either |-> [oneOf |-> <<[type |-> TypeTag("string")], [type |-> TypeTag("number")]>>],
   Hex |-> [pattern |-> "^[0-9a-f]+$"],
   Any |-> [type |-> TypeTags(<<"object", "null">>)]]

\* the types a variable of the operation may have
VarTypePool ==
  <<NonNullOf(Named("ID")),
    ListOf(Named("String")),
    Named("Filter"),
    NonNullOf(Named("A")),
    Named("Email"),
    Named("Color")>>
VarNames == <<"a", "b", "c", "d">>

isNonNullType(t) == t.k = "NonNull"
isListType(t) == t.k = "List"
isScalarType(t) == t.k = "Named" /\ Schema[t.name].kind = "Scalar"
isEnumType(t) == t.k = "Named" /\ Schema[t.name].kind = "Enum"
isInputObjectType(t) == t.k = "Named" /\ Schema[t.name].kind = "InputObject"
\* 'description' in t, and its value
hasDescription(t) == t.k \in {"Named", "Field"}
descriptionOf(t) == IF t.k = "Named" THEN Schema[t.name].description ELSE t.description

(***************************************************************************)
(* renderType / renderTypeToString                                         *)
(***************************************************************************)
RECURSIVE renderType(_, _)
renderType(into, t) ==
  IF isNonNullType(t) THEN Append(renderType(into, t.ofType), "!")
  ELSE IF isListType(t) THEN Append(renderType(Append(into, "["), t.ofType), "]")
  ELSE Append(into, t.name)

RECURSIVE join(_)
join(into) == IF into = <<>> THEN "" ELSE Head(into) \o join(Tail(into))

\* The backquotes of the markdown fence are written as apostrophes: a TLA+
\* string cannot hold a backquote.
renderTypeToString(t, useMarkdown) ==
  LET open == IF useMarkdown THEN <<"'''graphql\n">> ELSE <<>>
      body == renderType(open, t)
  IN join(IF useMarkdown THEN Append(body, "\n'''") ELSE body)

scalarTypesMap ==
  [Int |-> "integer", String |-> "string", Float |-> "number",
   ID |-> "string", Boolean |-> "boolean", DateTime |-> "string"]

(***************************************************************************)
(* Marker                                                                  *)
(***************************************************************************)
markAgain(set, name) == [ok |-> TRUE, set |-> set \cup {name}]
markForget(set, name) == [ok |-> name \notin set, set |-> set]
mark(set, name) == [ok |-> name \notin set, set |-> set \cup {name}]

(***************************************************************************)
(* getJSONSchemaFromGraphQLType: the pieces of one call.  A local object   *)
(* reference is [val, alias]: val is the object's value, alias names the   *)
(* entry of the caller's customScalarSchemas that is the same object, or   *)
(* is "" for an object this call created.                                  *)
(***************************************************************************)
Fresh(val) == [val |-> val, alias |-> ""]

\* if ('defaultValue' in type && type.defaultValue !== undefined)
defaultValue(type) ==
  IF type.k = "Field" /\ type.hasDefault
    THEN [default |-> type.defaultValue]
    ELSE EmptyObject

\* if (isEnumType(type))
enumAlwaysNull(definition, type, isNonNull) ==
  Set(definition, "enum", Append(Schema[type.name].values, Null))
enumDefinition(definition, type, isNonNull) ==
  Set(definition, "enum",
      IF isNonNull THEN Schema[type.name].values
                   ELSE Append(Schema[type.name].values, Null))

\* JSON.parse(JSON.stringify(options.customScalarSchemas[type.name]))
sharedReference(name) == [val |-> customScalarSchemas[name], alias |-> name]
deepClone(name) == Fresh(customScalarSchemas[name])

\* if (!isNonNull) { ... } of a custom scalar
broadenNull(obj) ==
  LET d == obj.val IN
  IF Has(d, "type") /\ d.type.isArray
    THEN [obj EXCEPT !.val = Set(d, "type", TypeTags(Append(d.type.tags, "null")))]
  ELSE IF Has(d, "type")
    THEN [obj EXCEPT !.val = Set(d, "type", TypeTags(<<d.type.tags[1], "null">>))]
  ELSE IF Has(d, "oneOf")
    THEN [obj EXCEPT !.val = Set(d, "oneOf", Append(d.oneOf, NullAlternative))]
  ELSE Fresh([oneOf |-> <<d, NullAlternative>>])

\* if (isScalarType(type))
scalarDefinition(definition, type, isNonNull) ==
  IF type.name \in DOMAIN scalarTypesMap
    THEN Fresh(Set(definition, "type",
                   IF isNonNull
                     THEN TypeTag(scalarTypesMap[type.name])
                     ELSE TypeTags(<<scalarTypesMap[type.name], "null">>)))
    ELSE LET custom ==
               IF type.name \in DOMAIN customScalarSchemas
                 THEN deepClone(type.name)
                 ELSE Fresh(Set(definition, "type",
                                TypeTags(<<"string", "number", "boolean", "integer">>)))
         IN IF isNonNull THEN custom ELSE broadenNull(custom)

\* if (def.$ref) ... else if (def.oneOf) ... else ...
listItems(def) ==
  IF Truthy(def, "$ref") THEN ("$ref" :> def["$ref"])
  ELSE IF Has(def, "oneOf") THEN [oneOf |-> def.oneOf]
  ELSE def

\* for (const defName of Object.keys(defs)) definitions[defName] = defs[defName]
RECURSIVE putAll(_, _)
putAll(into, defs) ==
  IF defs = <<>> THEN into
  ELSE putAll(Put(into, Head(defs).key, Head(defs).value), Tail(defs))
dropDefinitions(into, defs) == into
mergeDefinitions(into, defs) == putAll(into, defs)

\* the keys a merge of defs into `into` writes a second time
overwrittenBy(into, defs) == SelectSeq(Keys(defs), LAMBDA n : n \in KeySet(into))

\* the $ref or oneOf of an input object occurrence
objectReference(definition, type, isNonNull) ==
  IF isNonNull
    THEN Set(definition, "$ref", Ref(type.name))
    ELSE Set(definition, "oneOf", <<RefObject(type.name), NullAlternative>>)

\* const fieldDef = { type: 'object', properties: {}, required: [] } and its
\* description
newFieldDef(type) ==
  LET base == [type |-> TypeTag("object"), properties |-> <<>>, required |-> <<>>]
      desc == descriptionOf(type)
      plain == IF desc # "" THEN desc \o "\n" \o renderTypeToString(type, FALSE)
                            ELSE renderTypeToString(type, FALSE)
      rich == IF desc # "" THEN desc \o "\n" \o renderTypeToString(type, TRUE)
                           ELSE renderTypeToString(type, TRUE)
      described == Set(base, "description", plain)
  IN IF useMarkdownDescription THEN Set(described, "markdownDescription", rich)
                               ELSE described

\* fieldDef.properties[fieldName] = { ...typeDefinition, ...fieldDefinition }
\* and the description of the property
fieldProperty(field, typeDefinition, fieldDefinition) ==
  LET spread == Spread(typeDefinition, fieldDefinition)
      renderedField == renderTypeToString(field.type, FALSE)
      renderedFieldMarkdown == renderTypeToString(field.type, TRUE)
      described ==
        Set(spread, "description",
            IF field.description # "" THEN field.description \o "\n" \o renderedField
                                      ELSE renderedField)
  IN IF useMarkdownDescription
       THEN Set(described, "markdownDescription",
                IF field.description # ""
                  THEN field.description \o "\n" \o renderedFieldMarkdown
                  ELSE renderedFieldMarkdown)
       ELSE described

\* if (!isNonNull) { ... }: the description of the fragment
describe(definition, type) ==
  LET ofType == IF isNonNullType(type) THEN type.ofType ELSE type IN
  IF /\ hasDescription(ofType)
     /\ ~isScalarType(ofType)
     /\ descriptionOf(ofType) # ""
     /\ ~Truthy(definition, "description")
    THEN LET d == Set(definition, "description",
                      descriptionOf(ofType) \o "\n" \o renderTypeToString(type, FALSE))
         IN IF useMarkdownDescription
              THEN Set(d, "markdownDescription",
                       descriptionOf(ofType) \o "\n" \o renderTypeToString(type, TRUE))
              ELSE d
  ELSE IF Truthy(definition, "description")
    THEN LET d == Set(definition, "description",
                      definition.description \o "\n" \o renderTypeToString(type, FALSE))
         IN IF useMarkdownDescription
              THEN Set(d, "markdownDescription",
                       d.description \o "\n" \o renderTypeToString(type, TRUE))
              ELSE d
  ELSE LET d == Set(definition, "description", renderTypeToString(type, FALSE))
       IN IF useMarkdownDescription
            THEN Set(d, "markdownDescription", renderTypeToString(type, TRUE))
            ELSE d

(***************************************************************************)
(* The call stack.                                                         *)
(***************************************************************************)
NewFrame(type, isNonNull) ==
  [type |-> type, isNonNull |-> isNonNull, pc |-> "enter",
   required |-> FALSE, definition |-> EmptyObject, alias |-> "",
   definitions |-> <<>>, fieldDef |-> EmptyObject, fi |-> 0,
   typeResult |-> [required |-> FALSE, definition |-> EmptyObject, definitions |-> <<>>]]

NoResult ==
  [valid |-> FALSE, type |-> Named("ID"), isNonNull |-> FALSE, required |-> FALSE,
   definition |-> EmptyObject, alias |-> "", definitions |-> <<>>]

Top == stack[1]
Running(p) == stack # <<>> /\ Top.pc = p
Continue(frame) == <<frame>> \o Tail(stack)
Call(frame, type, isNonNull) == <<NewFrame(type, isNonNull), frame>> \o Tail(stack)

\* a write to an object that is an entry of the caller's customScalarSchemas
\* is a write to that entry
writeThrough(obj) ==
  IF obj.alias = "" THEN customScalarSchemas
  ELSE [customScalarSchemas EXCEPT ![obj.alias] = obj.val]

(***************************************************************************)
(* getJSONSchemaFromGraphQLType: one action per piece of a call.           *)
(***************************************************************************)
\* a scalar: the whole of the call up to the description
EnterScalar ==
  /\ Running("enter") /\ isScalarType(Top.type)
  /\ LET obj == scalarDefinition(defaultValue(Top.type), Top.type, Top.isNonNull) IN
       /\ stack' = Continue([Top EXCEPT !.definition = obj.val, !.alias = obj.alias,
                                        !.pc = "describe"])
       /\ customScalarSchemas' = writeThrough(obj)
  /\ UNCHANGED <<variableToType, mapGiven, useMarkdownDescription, pc, jsonSchema,
                 vi, marker, ret, run, firstCall, audit>>

EnterEnum ==
  /\ Running("enter") /\ isEnumType(Top.type)
  /\ stack' = Continue([Top EXCEPT
         !.definition = enumDefinition(defaultValue(Top.type), Top.type, Top.isNonNull),
         !.pc = "describe"])
  /\ UNCHANGED <<variableToType, mapGiven, useMarkdownDescription, customScalarSchemas,
                 pc, jsonSchema, vi, marker, ret, run, firstCall, audit>>

\* the call on a GraphQLInputField: none of the type tests holds
EnterField ==
  /\ Running("enter") /\ Top.type.k = "Field"
  /\ stack' = Continue([Top EXCEPT !.definition = defaultValue(Top.type),
                                   !.pc = "describe"])
  /\ UNCHANGED <<variableToType, mapGiven, useMarkdownDescription, customScalarSchemas,
                 pc, jsonSchema, vi, marker, ret, run, firstCall, audit>>

EnterList ==
  /\ Running("enter") /\ isListType(Top.type)
  /\ stack' = Call([Top EXCEPT
         !.definition = Set(defaultValue(Top.type), "type",
                            IF Top.isNonNull THEN TypeTag("array")
                                             ELSE TypeTags(<<"array", "null">>)),
         !.pc = "listReturn"], Top.type.ofType, FALSE)
  /\ UNCHANGED <<variableToType, mapGiven, useMarkdownDescription, customScalarSchemas,
                 pc, jsonSchema, vi, marker, ret, run, firstCall, audit>>

ListReturn ==
  /\ Running("listReturn")
  /\ stack' = Continue([Top EXCEPT
         !.definition = Set(Top.definition, "items", listItems(ret.definition)),
         !.definitions = mergeDefinitions(Top.definitions, ret.definitions),
         !.pc = "describe"])
  /\ audit' = [audit EXCEPT !.overwritten =
                 @ \o overwrittenBy(Top.definitions, ret.definitions)]
  /\ UNCHANGED <<variableToType, mapGiven, useMarkdownDescription, customScalarSchemas,
                 pc, jsonSchema, vi, marker, ret, run, firstCall>>

EnterNonNull ==
  /\ Running("enter") /\ isNonNullType(Top.type)
  /\ stack' = Call([Top EXCEPT !.definition = defaultValue(Top.type),
                               !.required = TRUE,
                               !.pc = "nonNullReturn"], Top.type.ofType, TRUE)
  /\ UNCHANGED <<variableToType, mapGiven, useMarkdownDescription, customScalarSchemas,
                 pc, jsonSchema, vi, marker, ret, run, firstCall, audit>>

\* definition = def: the wrapper's fragment is the inner call's object
NonNullReturn ==
  /\ Running("nonNullReturn")
  /\ stack' = Continue([Top EXCEPT
         !.definition = ret.definition,
         !.alias = ret.alias,
         !.definitions = mergeDefinitions(Top.definitions, ret.definitions),
         !.pc = "describe"])
  /\ audit' = [audit EXCEPT !.overwritten =
                 @ \o overwrittenBy(Top.definitions, ret.definitions)]
  /\ UNCHANGED <<variableToType, mapGiven, useMarkdownDescription, customScalarSchemas,
                 pc, jsonSchema, vi, marker, ret, run, firstCall>>

\* the reference, and options.definitionMarker.mark(type.name)
EnterInputObject ==
  /\ Running("enter") /\ isInputObjectType(Top.type)
  /\ LET reference == objectReference(defaultValue(Top.type), Top.type, Top.isNonNull)
         marked == mark(marker, Top.type.name)
     IN /\ marker' = marked.set
        /\ IF marked.ok
             THEN /\ stack' = Continue([Top EXCEPT !.definition = reference,
                                                   !.fieldDef = newFieldDef(Top.type),
                                                   !.fi = 1,
                                                   !.pc = "fields"])
                  /\ audit' = [audit EXCEPT !.expanded = Append(@, Top.type.name)]
             ELSE /\ stack' = Continue([Top EXCEPT !.definition = reference,
                                                   !.pc = "describe"])
                  /\ audit' = audit
  /\ UNCHANGED <<variableToType, mapGiven, useMarkdownDescription, customScalarSchemas,
                 pc, jsonSchema, vi, ret, run, firstCall>>

fieldsOf(type) == Schema[type.name].fields

\* getJSONSchemaFromGraphQLType(field.type, options)
FieldTypeCall ==
  /\ Running("fields") /\ Top.fi <= Len(fieldsOf(Top.type))
  /\ stack' = Call([Top EXCEPT !.pc = "fieldTypeReturn"],
                   fieldsOf(Top.type)[Top.fi].type, FALSE)
  /\ UNCHANGED <<variableToType, mapGiven, useMarkdownDescription, customScalarSchemas,
                 pc, jsonSchema, vi, marker, ret, run, firstCall, audit>>

\* getJSONSchemaFromGraphQLType(field, options)
FieldCall ==
  /\ Running("fieldTypeReturn")
  /\ stack' = Call([Top EXCEPT
         !.typeResult = [required |-> ret.required, definition |-> ret.definition,
                         definitions |-> ret.definitions],
         !.pc = "fieldReturn"], fieldsOf(Top.type)[Top.fi], FALSE)
  /\ UNCHANGED <<variableToType, mapGiven, useMarkdownDescription, customScalarSchemas,
                 pc, jsonSchema, vi, marker, ret, run, firstCall, audit>>

\* the rest of the loop body over the fields
FieldAssign ==
  /\ Running("fieldReturn")
  /\ LET field == fieldsOf(Top.type)[Top.fi]
         property == fieldProperty(field, Top.typeResult.definition, ret.definition)
         withProperty == Set(Top.fieldDef, "properties",
                             Put(Top.fieldDef.properties, field.name, property))
         withRequired ==
           IF Top.typeResult.required
             THEN Set(withProperty, "required", Append(Top.fieldDef.required, field.name))
             ELSE withProperty
     IN /\ stack' = Continue([Top EXCEPT
               !.fieldDef = withRequired,
               !.definitions = mergeDefinitions(Top.definitions, Top.typeResult.definitions),
               !.fi = Top.fi + 1,
               !.pc = "fields"])
        /\ audit' = [audit EXCEPT !.overwritten =
                       @ \o overwrittenBy(Top.definitions, Top.typeResult.definitions)]
  /\ UNCHANGED <<variableToType, mapGiven, useMarkdownDescription, customScalarSchemas,
                 pc, jsonSchema, vi, marker, ret, run, firstCall>>

\* definitions[type.name] = fieldDef
FieldsDone ==
  /\ Running("fields") /\ Top.fi > Len(fieldsOf(Top.type))
  /\ stack' = Continue([Top EXCEPT
         !.definitions = Put(Top.definitions, Top.type.name, Top.fieldDef),
         !.pc = "describe"])
  /\ audit' = [audit EXCEPT
         !.written = Append(@, Top.type.name),
         !.overwritten = @ \o (IF Top.type.name \in KeySet(Top.definitions)
                                 THEN <<Top.type.name>> ELSE <<>>)]
  /\ UNCHANGED <<variableToType, mapGiven, useMarkdownDescription, customScalarSchemas,
                 pc, jsonSchema, vi, marker, ret, run, firstCall>>

\* if (!isNonNull) { ... }  return { required, definition, definitions }
DescribeAndReturn ==
  /\ Running("describe")
  /\ LET obj == [val |-> IF Top.isNonNull THEN Top.definition
                                          ELSE describe(Top.definition, Top.type),
                 alias |-> Top.alias]
     IN /\ ret' = [valid |-> TRUE, type |-> Top.type, isNonNull |-> Top.isNonNull,
                   required |-> Top.required, definition |-> obj.val,
                   alias |-> obj.alias, definitions |-> Top.definitions]
        /\ customScalarSchemas' = writeThrough(obj)
  /\ stack' = Tail(stack)
  /\ UNCHANGED <<variableToType, mapGiven, useMarkdownDescription, pc, jsonSchema,
                 vi, marker, run, firstCall, audit>>

(***************************************************************************)
(* getVariablesJSONSchema                                                  *)
(***************************************************************************)
NoAudit == [expanded |-> <<>>, written |-> <<>>, overwritten |-> <<>>]

\* definitionMarker: new Marker()
staleMarker == marker
newMarker == {}

\* if (required) jsonSchema.required.push(variableName)
pushAlways(list, variableName, required) == Append(list, variableName)
pushRequired(list, variableName, required) ==
  IF required THEN Append(list, variableName) ELSE list

\* if (definitions): an object, empty or not, is truthy
isTruthy(definitions) == TRUE

\* { ...jsonSchema?.definitions, ...definitions }
replaceDefinitions(schema, definitions) == definitions
spreadDefinitions(schema, definitions) ==
  putAll(IF Has(schema, "definitions") THEN schema.definitions ELSE <<>>, definitions)

VarMaps ==
  UNION {[1..n -> 1..Len(VarTypePool)] : n \in 0..MaxVars}
entries(choice) ==
  [i \in 1..Len(choice) |-> [name |-> VarNames[i], type |-> VarTypePool[choice[i]]]]
Orders(n) ==
  {p \in [1..n -> 1..n] : \A i, j \in 1..n : p[i] = p[j] => i = j}

Init ==
  /\ mapGiven \in BOOLEAN
  /\ \E choice \in VarMaps :
       /\ mapGiven \/ choice = <<>>
       /\ variableToType = entries(choice)
  /\ useMarkdownDescription \in BOOLEAN
  /\ customScalarSchemas = CallerScalarSchemas
  /\ pc = "call"
  /\ jsonSchema = EmptyObject
  /\ vi = 0
  /\ marker = {}
  /\ stack = <<>>
  /\ ret = NoResult
  /\ run = 1
  /\ firstCall = [variableToType |-> <<>>, result |-> EmptyObject]
  /\ audit = NoAudit

\* the function's first statements
Begin ==
  /\ pc = "call"
  /\ jsonSchema' = ("$schema" :> "https://json-schema.org/draft/2020-12/schema")
                   @@ [type |-> TypeTag("object"), properties |-> <<>>, required |-> <<>>]
  /\ marker' = newMarker
  /\ vi' = 1
  /\ audit' = NoAudit
  /\ pc' = "loop"
  /\ UNCHANGED <<variableToType, mapGiven, useMarkdownDescription, customScalarSchemas,
                 stack, ret, run, firstCall>>

\* getJSONSchemaFromGraphQLType(type, runtimeOptions)
VariableCall ==
  /\ pc = "loop" /\ mapGiven /\ vi <= Len(variableToType)
  /\ stack' = <<NewFrame(variableToType[vi].type, FALSE)>>
  /\ pc' = "assign"
  /\ UNCHANGED <<variableToType, mapGiven, useMarkdownDescription, customScalarSchemas,
                 jsonSchema, vi, marker, ret, run, firstCall, audit>>

\* the rest of the loop body over the variables
VariableAssign ==
  /\ pc = "assign" /\ stack = <<>>
  /\ LET variableName == variableToType[vi].name
         withProperty == Set(jsonSchema, "properties",
                             Put(jsonSchema.properties, variableName, ret.definition))
         withRequired == Set(withProperty, "required",
                             pushRequired(jsonSchema.required, variableName, ret.required))
     IN IF isTruthy(ret.definitions)
          THEN /\ jsonSchema' = Set(withRequired, "definitions",
                                    spreadDefinitions(jsonSchema, ret.definitions))
               /\ audit' = [audit EXCEPT !.overwritten =
                              @ \o overwrittenBy(IF Has(jsonSchema, "definitions")
                                                   THEN jsonSchema.definitions ELSE <<>>,
                                                 ret.definitions)]
          ELSE /\ jsonSchema' = withRequired
               /\ audit' = audit
  /\ vi' = vi + 1
  /\ pc' = "loop"
  /\ UNCHANGED <<variableToType, mapGiven, useMarkdownDescription, customScalarSchemas,
                 marker, stack, ret, run, firstCall>>

\* return jsonSchema
Return ==
  /\ pc = "loop" /\ (~mapGiven \/ vi > Len(variableToType))
  /\ pc' = "returned"
  /\ firstCall' = IF run = 1
                    THEN [variableToType |-> variableToType, result |-> jsonSchema]
                    ELSE firstCall
  /\ UNCHANGED <<variableToType, mapGiven, useMarkdownDescription, customScalarSchemas,
                 jsonSchema, vi, marker, stack, ret, run, audit>>

\* the caller calls again, with the same entries in any order
CallAgain ==
  /\ pc = "returned" /\ run = 1
  /\ \E p \in Orders(Len(variableToType)) :
       variableToType' = [i \in 1..Len(variableToType) |-> variableToType[p[i]]]
  /\ run' = 2
  /\ pc' = "call"
  /\ UNCHANGED <<mapGiven, useMarkdownDescription, customScalarSchemas, jsonSchema,
                 vi, marker, stack, ret, firstCall, audit>>

Next ==
  \/ Begin \/ VariableCall \/ VariableAssign \/ Return \/ CallAgain
  \/ EnterScalar \/ EnterEnum \/ EnterField
  \/ EnterList \/ ListReturn
  \/ EnterNonNull \/ NonNullReturn
  \/ EnterInputObject \/ FieldTypeCall \/ FieldCall \/ FieldAssign \/ FieldsDone
  \/ DescribeAndReturn

Spec == Init /\ [][Next]_vars
\* the function is synchronous: a call that can take a step takes it
FairSpec == Spec /\ WF_vars(Next)

Done == pc = "returned" /\ run = 2

(***************************************************************************)
(* Properties.                                                             *)
(***************************************************************************)
Returned == pc = "returned"
definitionsOf(doc) == IF Has(doc, "definitions") THEN doc.definitions ELSE <<>>
typeOf(name) == (CHOOSE e \in {variableToType[i] : i \in 1..Len(variableToType)} :
                   e.name = name).type

\* every #/definitions/... reference of a fragment, at any depth
RECURSIVE refsIn(_)
refsIn(d) ==
  (IF Has(d, "$ref") THEN {d["$ref"]} ELSE {})
  \cup (IF Has(d, "items") THEN refsIn(d.items) ELSE {})
  \cup (IF Has(d, "oneOf") THEN UNION {refsIn(d.oneOf[i]) : i \in 1..Len(d.oneOf)} ELSE {})
  \cup (IF Has(d, "properties")
          THEN UNION {refsIn(d.properties[i].value) : i \in 1..Len(d.properties)}
          ELSE {})
refsOfDocument(doc) ==
  refsIn(doc) \cup UNION {refsIn(definitionsOf(doc)[i].value) :
                            i \in 1..Len(definitionsOf(doc))}

\* a null alternative at the fragment's own level
hasNull(d) ==
  \/ Has(d, "type") /\ \E i \in 1..Len(d.type.tags) : d.type.tags[i] = "null"
  \/ Has(d, "enum") /\ \E i \in 1..Len(d.enum) : d.enum[i] = Null
  \/ Has(d, "oneOf") /\ \E i \in 1..Len(d.oneOf) : d.oneOf[i] = NullAlternative

noDuplicates(list) == \A i, j \in 1..Len(list) : list[i] = list[j] => i = j
asSet(list) == {list[i] : i \in 1..Len(list)}

\* C1: every #/definitions/<Name> reference anywhere in the returned document
\* (a variable's fragment, list items, a oneOf alternative, a property of a
\* definition) names a key of the returned document's definitions.
C1_ReferencesResolve ==
  Returned =>
    refsOfDocument(jsonSchema) \subseteq {Ref(n) : n \in KeySet(definitionsOf(jsonSchema))}

\* a returned document with references in a variable's fragment, in list items
\* and in properties of definitions of a cyclic type graph
C1_Witness ==
  /\ Returned
  /\ {"Filter", "A", "B", "Bag"} \subseteq KeySet(definitionsOf(jsonSchema))
  /\ Ref("A") \in refsIn(Get(jsonSchema.definitions, "B"))
  /\ Ref("Filter") \in refsIn(Get(jsonSchema.definitions, "Filter"))

\* C2: within one call every input object name is expanded at most once and
\* its definition is written exactly once, no merge (list, non-null, field or
\* top-level) writes a key that its target already holds, and the definition
\* of Filter { self: Filter } has the property self with the oneOf of the
\* reference to Filter and the null alternative.
C2_DefinedOnce ==
  /\ noDuplicates(audit.expanded)
  /\ noDuplicates(audit.written)
  /\ audit.overwritten = <<>>
  /\ Returned =>
       /\ asSet(audit.written) = KeySet(definitionsOf(jsonSchema))
       /\ Len(definitionsOf(jsonSchema)) = Len(audit.written)
       /\ "Filter" \in KeySet(definitionsOf(jsonSchema)) =>
            Get(Get(jsonSchema.definitions, "Filter").properties, "self").oneOf
              = <<RefObject("Filter"), NullAlternative>>

\* Filter is reached by two variables and by its own field, and is defined
C2_Witness ==
  /\ Returned
  /\ Len(variableToType) = 2
  /\ \A i \in 1..2 : variableToType[i].type = Named("Filter")
  /\ Keys(jsonSchema.definitions) = <<"Filter">>

\* C3: a call ends on every type graph, cyclic ones included: the number of
\* field expansions of a call never exceeds the number of input object type
\* names, and both calls return.
C3_Terminates ==
  /\ [](Len(audit.expanded) <= Cardinality(InputObjectNames))
  /\ <>Done

\* an occurrence of an input object inside its own expansion (directly or
\* through other types) has returned to the point after the expansion without
\* expanding
C3_Witness ==
  /\ Running("describe")
  /\ isInputObjectType(Top.type)
  /\ Top.fi = 0
  /\ \E i \in 2..Len(stack) :
       /\ stack[i].type = Top.type
       /\ stack[i].pc = "fieldTypeReturn"
  /\ \E i \in 2..Len(stack) : isListType(stack[i].type)

\* C4: the fragment a call returns for a non-null occurrence of a type (the
\* call with isNonNull, or the call on the NonNull wrapper) has no null
\* alternative at its own level; the fragment returned for a nullable
\* occurrence of a scalar, enum, list or input object has one.
C4_NonNullTightens ==
  (ret.valid /\ ret.type.k # "Field") =>
    IF ret.isNonNull \/ isNonNullType(ret.type)
      THEN ~hasNull(ret.definition)
      ELSE hasNull(ret.definition)

\* a custom scalar whose override in customScalarSchemas allows null itself
overrideAllowsNull(t) ==
  /\ isScalarType(t)
  /\ t.name \in DOMAIN CallerScalarSchemas
  /\ hasNull(CallerScalarSchemas[t.name])

\* C4, amended: the fragment of a non-null occurrence has no null alternative
\* at its own level unless the type is a custom scalar whose override has
\* one; the fragment of a nullable occurrence has one.
C4_NonNullTightensUnlessOverride ==
  (ret.valid /\ ret.type.k # "Field") =>
    IF ret.isNonNull \/ isNonNullType(ret.type)
      THEN hasNull(ret.definition) =>
             overrideAllowsNull(IF isNonNullType(ret.type) THEN ret.type.ofType
                                                           ELSE ret.type)
      ELSE hasNull(ret.definition)

\* the non-null occurrence of an enum was returned after a nullable one of
\* the same enum went into the document
C4_Witness ==
  /\ ret.valid
  /\ ret.type = NonNullOf(Named("Color"))
  /\ ~hasNull(ret.definition)
  /\ Len(jsonSchema.properties) = 1
  /\ variableToType[1].type = Named("Color")
  /\ hasNull(jsonSchema.properties[1].value)

\* C5: the returned document has a definitions key only if it is non-empty.
C5_DefinitionsOnlyIfNonEmpty ==
  Returned => (Has(jsonSchema, "definitions") => jsonSchema.definitions # <<>>)

\* C6: the required list of the returned document holds exactly the names of
\* the variables whose type is a NonNull wrapper, each once, in the order of
\* the map; properties has every variable of the map, in that order; without
\* a map, or with an empty one, both are empty.
C6_RequiredIffNonNull ==
  Returned =>
    LET given == IF mapGiven THEN variableToType ELSE <<>>
        names == [i \in 1..Len(given) |-> given[i].name]
    IN /\ jsonSchema.required = SelectSeq(names, LAMBDA n : isNonNullType(typeOf(n)))
       /\ Keys(jsonSchema.properties) = names

\* a nullable variable followed by a non-null one
C6_Witness ==
  /\ Returned
  /\ Len(variableToType) = 2
  /\ ~isNonNullType(variableToType[1].type)
  /\ isNonNullType(variableToType[2].type)
  /\ jsonSchema.required = <<"b">>

\* C7: the second call on the same map and options returns the document the
\* first call returned.
C7_SameDocumentTwice ==
  (Done /\ variableToType = firstCall.variableToType) =>
    jsonSchema = firstCall.result

\* both calls returned the definitions of the cyclic types
C7_Witness ==
  /\ Done
  /\ variableToType = firstCall.variableToType
  /\ variableToType # <<>>
  /\ Len(definitionsOf(jsonSchema)) >= 3
  /\ jsonSchema = firstCall.result

\* the texts a description can start with, before the type signature
Descriptions ==
  {Schema[n].description : n \in DOMAIN Schema}
  \cup UNION {{Schema[n].fields[i].description : i \in 1..Len(Schema[n].fields)} :
                n \in DOMAIN Schema}
  \cup {CallerScalarSchemas[n].description :
          n \in {m \in DOMAIN CallerScalarSchemas : Has(CallerScalarSchemas[m], "description")}}
Prefixes == {""} \cup {d \o "\n" : d \in Descriptions \ {""}}

\* C8: with useMarkdownDescription, the fragment a nullable-context call
\* returns has a markdownDescription that is its description with the type
\* signature once, fenced, in place of the plain signature.
C8_MarkdownMirrors ==
  (ret.valid /\ ~ret.isNonNull /\ useMarkdownDescription) =>
    /\ Has(ret.definition, "markdownDescription")
    /\ \E prefix \in Prefixes :
         /\ ret.definition.description = prefix \o renderTypeToString(ret.type, FALSE)
         /\ ret.definition.markdownDescription
              = prefix \o renderTypeToString(ret.type, TRUE)

\* C9: the caller's customScalarSchemas is never written, and the fragment of
\* a non-null occurrence of an overridden scalar is the override as the
\* caller gave it, whatever nullable occurrences came before.
C9_CallerSchemasUntouched ==
  /\ customScalarSchemas = CallerScalarSchemas
  /\ (ret.valid /\ ret.isNonNull /\ isScalarType(ret.type)
        /\ ret.type.name \in DOMAIN CallerScalarSchemas) =>
       ret.definition = CallerScalarSchemas[ret.type.name]

\* a nullable occurrence of Email is in the document, broadened with null,
\* and a later non-null occurrence of Email has just been returned
C9_Witness ==
  /\ ret.valid /\ ret.isNonNull /\ ret.type = Named("Email")
  /\ Len(jsonSchema.properties) = 1
  /\ variableToType[1].type = Named("Email")
  /\ hasNull(jsonSchema.properties[1].value)
  /\ ret.definition = CallerScalarSchemas["Email"]

\* C10: a call on a permutation of the entries returns the same fragment for
\* every variable name and the same definitions: the same keys, the same
\* object schema under each key.
C10_OrderIndependent ==
  Done =>
    LET first == firstCall.result IN
    /\ KeySet(jsonSchema.properties) = KeySet(first.properties)
    /\ \A n \in KeySet(jsonSchema.properties) :
         Get(jsonSchema.properties, n) = Get(first.properties, n)
    /\ KeySet(definitionsOf(jsonSchema)) = KeySet(definitionsOf(first))
    /\ \A n \in KeySet(definitionsOf(jsonSchema)) :
         Get(jsonSchema.definitions, n) = Get(first.definitions, n)

\* the two calls reached the input objects in different orders: the
\* definitions were returned by different calls
C10_Witness ==
  /\ Done
  /\ variableToType # firstCall.variableToType
  /\ Len(definitionsOf(jsonSchema)) >= 2
  /\ Keys(definitionsOf(jsonSchema)) # Keys(definitionsOf(firstCall.result))
====
